---------------------------- MODULE Spec2Model ----------------------------
(***************************************************************************)
(* A model of the CPU ray tracer: ray/cube intersection (cube.rs), the     *)
(* shading integrator (main.rs), Color, Texture, Material, Framebuffer,    *)
(* the Camera, render and the main loop.                                   *)
(*                                                                         *)
(* Floating point.  Every f32 the model computes is exactly representable: *)
(* coordinates are integers, direction components are drawn from           *)
(* {-2,-1,0,1,2}, so 1.0/d is exact (or an infinity) and every product and *)
(* sum is exact.  A ray parameter t is stored as the integer 2*t ("half    *)
(* units"), a hit point as twice its coordinates.  +inf, -inf and NaN are  *)
(* the values PosInf, NegInf and NaN below, with IEEE-754 rules for the    *)
(* operations the code applies to them.                                    *)
(***************************************************************************)
EXTENDS Integers, Sequences, FiniteSets, TLC

VARIABLES
    \* ---- cube.rs: one call of an intersection routine
    cube,           \* the Cube the call is made on: [min, max, material]
    ray_origin,     \* the call's origin argument
    ray_direction,  \* the call's direction argument
    called,         \* which routine has run: "none", "inherent", "trait"
    hit,            \* the Option<Intersect> it returned
    \* ---- color.rs: one call of a Color operation
    col_call,       \* the call: [op, a, b, s, v] (receiver, operand, scalar, i32 args)
    col_done,       \* whether it has returned
    col_out,        \* the Color it returned
    \* ---- texture.rs, material.rs
    file,           \* what Texture::new finds at file_path
    texture,        \* the Texture built from it (NoTexture before Texture::new)
    tex_call,       \* the last Texture::get_color call: [x, y, out, reads]
    material,       \* a Material (NoMaterial before its constructor)
    mat_call,       \* the last Material::get_diffuse_color call: [u, v, out]
    \* ---- framebuffer.rs
    fb,             \* the Framebuffer: [width, height, data, current_color]
    fb_last,        \* the last point/set_pixel call: whether its coordinates were in
                    \* range ("none" before any call) and whether it changed a byte
    \* ---- main.rs: one call of cast_ray
    scene_objects,  \* the object list: a sequence of Cubes
    scene_lights,   \* the light list: a sequence of Lights
    primary,        \* the ray and depth of the call: [origin, direction, depth]
    chance,         \* what the call draws: [gloss, samples]
    ray_out,        \* what the call returned and computed on the way
    \* ---- camera.rs
    camera,         \* the Camera: [eye, center, up, has_changed]
    cam_call,       \* the last call on it, and whether a change is pending
    \* ---- main.rs: render and the main loop
    main_pc,        \* where the loop body stands: "head", "cleared", "ready",
                    \* "rendering", "rendered", "presented", "exited"
    render_pos,     \* the render call's loop position: [state, x, y]
    frame,          \* the history of the current iteration
    current_skybox, \* current_skybox_texture
    shown           \* the buffer last handed to the window

cubeVars == <<cube, ray_origin, ray_direction, called, hit>>
colorVars == <<col_call, col_done, col_out>>

texVars == <<file, texture, tex_call, material, mat_call>>
fbVars == <<fb, fb_last>>
rayVars == <<scene_objects, scene_lights, primary, chance, ray_out>>
camVars == <<camera, cam_call>>
mainVars == <<main_pc, render_pos, frame, current_skybox, shown>>

vars == <<cubeVars, colorVars, texVars, fbVars, rayVars, camVars, mainVars>>

-----------------------------------------------------------------------------
(* f32 values outside the integers *)

PosInf == 1000000
NegInf == -1000000
NaN == 2000000

IsNaN(a) == a = NaN
IsFinite(a) == a # NaN /\ a # PosInf /\ a # NegInf

\* f32::min / f32::max, which nalgebra's component-wise and reducing min/max
\* apply: when one operand is NaN the other is returned.
FMin(a, b) == IF IsNaN(a) THEN b ELSE IF IsNaN(b) THEN a ELSE IF a <= b THEN a ELSE b
FMax(a, b) == IF IsNaN(a) THEN b ELSE IF IsNaN(b) THEN a ELSE IF a >= b THEN a ELSE b

\* The comparisons >= and < of f32: false when an operand is NaN.
FGe(a, b) == ~IsNaN(a) /\ ~IsNaN(b) /\ a >= b
FLt(a, b) == ~IsNaN(a) /\ ~IsNaN(b) /\ a < b

Sign(n) == IF n > 0 THEN 1 ELSE IF n < 0 THEN -1 ELSE 0

\* (c - o) * (1.0 / d), in half units.  1.0/0.0 is +inf; x * inf is +-inf by
\* the sign of x and NaN for x = 0.
SlabT(c, o, d) ==
    IF d = 0
    THEN IF c - o > 0 THEN PosInf ELSE IF c - o < 0 THEN NegInf ELSE NaN
    ELSE IF d > 0 THEN (2 * (c - o)) \div d ELSE (2 * (o - c)) \div (-d)

\* o + d * t for one component, as twice the coordinate (t in half units).
\* 0 * inf is NaN, and NaN propagates.
PointAt(o, d, t) ==
    IF IsNaN(t) THEN NaN
    ELSE IF IsFinite(t) THEN 2 * o + d * t
    ELSE IF d = 0 THEN NaN
    ELSE IF Sign(d) * Sign(t) > 0 THEN PosInf ELSE NegInf

Axes == 1..3

-----------------------------------------------------------------------------
(* cube.rs *)

\* Option::None, and Some(Intersect {..}) with the fields the code sets.
None == [some |-> FALSE, point |-> <<0, 0, 0>>, normal |-> <<0, 0, 0>>,
         distance |-> 0, material |-> 0, is_intersecting |-> FALSE]

Some(p, n, dist, m) ==
    [some |-> TRUE, point |-> p, normal |-> n, distance |-> dist,
     material |-> m, is_intersecting |-> TRUE]

T0(c, o, d) == [i \in Axes |-> SlabT(c.min[i], o[i], d[i])]
T1(c, o, d) == [i \in Axes |-> SlabT(c.max[i], o[i], d[i])]

\* t0.min(&t1).max() and t0.max(&t1).min()
Tmin(c, o, d) ==
    LET lo == [i \in Axes |-> FMin(T0(c, o, d)[i], T1(c, o, d)[i])]
    IN  FMax(FMax(lo[1], lo[2]), lo[3])

Tmax(c, o, d) ==
    LET hi == [i \in Axes |-> FMax(T0(c, o, d)[i], T1(c, o, d)[i])]
    IN  FMin(FMin(hi[1], hi[2]), hi[3])

\* Cube::get_normal ignores its arguments.
get_normal(tmin, tmax) == <<0, 1, 0>>

\* The inherent method Cube::intersect.
Cube_intersect(c, o, d) ==
    LET tmin == Tmin(c, o, d)
        tmax == Tmax(c, o, d)
    IN  IF FGe(tmax, tmin) /\ FGe(tmax, 0)
        THEN Some([i \in Axes |-> PointAt(o[i], d[i], tmin)],
                  get_normal(tmin, tmax), tmin, c.material)
        ELSE None

\* <Cube as RayIntersect>::intersect, the same text a second time.
RayIntersect_intersect(c, o, d) ==
    LET tmin == Tmin(c, o, d)
        tmax == Tmax(c, o, d)
    IN  IF FGe(tmax, tmin) /\ FGe(tmax, 0)
        THEN Some([i \in Axes |-> PointAt(o[i], d[i], tmin)],
                  get_normal(tmin, tmax), tmin, c.material)
        ELSE None

-----------------------------------------------------------------------------
(* The inputs of an intersection call *)

\* Largest cube extent per axis; origins range one step beyond the cube.
MaxExtent == 2

Vec(S) == {<<x, y, z>> : x \in S, y \in S, z \in S}

\* Cubes with min < max component-wise (the invariant of §3).
Cubes == {[min |-> <<0, 0, 0>>, max |-> mx, material |-> 1] : mx \in Vec(1..MaxExtent)}
Origins == Vec(-1..(MaxExtent + 1))
Directions == Vec({-2, -1, 0, 1, 2}) \ {<<0, 0, 0>>}

CallCubeIntersect ==
    /\ called = "none"
    /\ called' = "inherent"
    /\ hit' = Cube_intersect(cube, ray_origin, ray_direction)
    /\ UNCHANGED <<cube, ray_origin, ray_direction>>
    /\ UNCHANGED <<colorVars, texVars, fbVars, rayVars, camVars, mainVars>>

CallRayIntersect ==
    /\ called = "none"
    /\ called' = "trait"
    /\ hit' = RayIntersect_intersect(cube, ray_origin, ray_direction)
    /\ UNCHANGED <<cube, ray_origin, ray_direction>>
    /\ UNCHANGED <<colorVars, texVars, fbVars, rayVars, camVars, mainVars>>


-----------------------------------------------------------------------------
(* Claims about cube.rs *)

\* The unit cube, on a grid whose step is half a unit.
IsUnitCube(c) == c.min = <<0, 0, 0>> /\ c.max = <<2, 2, 2>>

StrictlyInside(c, o) == \A i \in Axes : c.min[i] < o[i] /\ o[i] < c.max[i]

\* d is one of the six canonical directions and the ray from o travels along
\* axis k toward the cube through the interior of the face it meets.
CanonicalShot(c, o, d) ==
    \E k \in Axes :
        /\ d[k] \in {-1, 1}
        /\ \A j \in Axes \ {k} : d[j] = 0 /\ c.min[j] < o[j] /\ o[j] < c.max[j]
        /\ IF d[k] = 1 THEN o[k] < c.min[k] ELSE o[k] > c.max[k]

\* The outward normal of the face a canonical shot enters through.
FaceNormal(d) == [i \in Axes |-> -d[i]]

\* C1: for each of the six canonical directions fired at the unit cube from
\* outside, the call reports a hit whose normal is the outward normal of the
\* face that was struck.
C1_FaceNormals ==
    (called # "none" /\ IsUnitCube(cube) /\ CanonicalShot(cube, ray_origin, ray_direction))
        => (hit.some /\ hit.normal = FaceNormal(ray_direction))

\* C2: a ray whose origin lies strictly inside the cube is reported as a hit
\* with distance >= 0.
C2_InteriorOrigin ==
    (called # "none" /\ StrictlyInside(cube, ray_origin))
        => (hit.some /\ FGe(hit.distance, 0))

\* Whether some t >= 0 puts o + t*d in the closed box.  When such a t exists,
\* one exists among 0 and the finite plane parameters (all in half units).
PlaneParams(c, o, d) ==
    {0} \cup {t \in {T0(c, o, d)[i] : i \in Axes} \cup {T1(c, o, d)[i] : i \in Axes} :
                IsFinite(t)}

RayMeetsBox(c, o, d) ==
    \E t \in PlaneParams(c, o, d) :
        /\ t >= 0
        /\ \A i \in Axes : 2 * c.min[i] <= 2 * o[i] + d[i] * t
                           /\ 2 * o[i] + d[i] * t <= 2 * c.max[i]

\* The slab test as the contract words it.
SlabHit(c, o, d) == FGe(Tmax(c, o, d), Tmin(c, o, d)) /\ FGe(Tmax(c, o, d), 0)

\* C3 as claimed: a hit is returned exactly when the slab test passes, that
\* is exactly when the ray meets the box, and a hit carries tmin and
\* origin + direction*tmin.
C3_SlabIffMeets ==
    called # "none" =>
        /\ hit.some <=> SlabHit(cube, ray_origin, ray_direction)
        /\ hit.some <=> RayMeetsBox(cube, ray_origin, ray_direction)
        /\ hit.some =>
            /\ hit.distance = Tmin(cube, ray_origin, ray_direction)
            /\ hit.point = [i \in Axes |-> PointAt(ray_origin[i], ray_direction[i],
                                                   Tmin(cube, ray_origin, ray_direction))]

-----------------------------------------------------------------------------
(* color.rs *)

\* An f32 scalar is a fraction [n, d] with d > 0; [n, 0] is +inf (n > 0),
\* -inf (n < 0) or NaN (n = 0).  The scalars the model draws have a product
\* with every channel value that f32 represents exactly.
Rat(n, d) == [n |-> n, d |-> d]

MaxChannel == 255
I32Min == -2147483647 - 1
I32Max == 2147483647

\* x / d rounded toward zero (d > 0): the float-to-int cast of a finite value.
TruncDiv(x, d) == IF x >= 0 THEN x \div d ELSE -((-x) \div d)

\* (ch as f32 * s) as i32: the cast saturates and sends NaN to 0.
MulAsI32(ch, s) ==
    IF s.d = 0
    THEN IF ch = 0 \/ s.n = 0 THEN 0 ELSE IF s.n > 0 THEN I32Max ELSE I32Min
    ELSE TruncDiv(ch * s.n, s.d)

\* A clamp that lets `value as u8` wrap above 255.
Color_clamp_wraps(value) ==
    IF value < 0 THEN 0 ELSE value % 256

\* Color::clamp
Color_clamp(value) ==
    IF value < 0 THEN 0 ELSE IF value > 255 THEN 255 ELSE value

\* Color::new
Color_new(r, g, b) == <<Color_clamp(r), Color_clamp(g), Color_clamp(b)>>

\* Color::from_hex, on the three bytes of the hex value
Color_from_hex(r, g, b) == Color_new(r, g, b)

\* Color::black
Color_black == <<0, 0, 0>>

\* Color::add (the method)
Color_add(self, other) ==
    <<Color_clamp(self[1] + other[1]), Color_clamp(self[2] + other[2]),
      Color_clamp(self[3] + other[3])>>

\* Color::multiply (the method)
Color_multiply(self, scalar) ==
    <<Color_clamp(MulAsI32(self[1], scalar)), Color_clamp(MulAsI32(self[2], scalar)),
      Color_clamp(MulAsI32(self[3], scalar))>>

\* impl Mul<f32> for Color
Color_mul(self, scalar) ==
    <<Color_clamp(MulAsI32(self[1], scalar)), Color_clamp(MulAsI32(self[2], scalar)),
      Color_clamp(MulAsI32(self[3], scalar))>>

\* impl Add for Color
Color_plus(self, other) ==
    <<Color_clamp(self[1] + other[1]), Color_clamp(self[2] + other[2]),
      Color_clamp(self[3] + other[3])>>

(* The inputs of a Color call *)

Channel == 0..MaxChannel

\* Every pair of channel values occurs in each of the three channels of
\* (a, b) with a in ColorsA and b in ColorsB (3 is invertible modulo 256).
ColorsA == {<<x, 255 - x, (3 * x) % 256>> : x \in Channel}
ColorsB == {<<y, y, 255 - y>> : y \in Channel}

Scalars ==
    {Rat(-3, 1), Rat(-1, 4), Rat(0, 1), Rat(1, 4), Rat(1, 2), Rat(3, 4), Rat(1, 1),
     Rat(5, 4), Rat(2, 1), Rat(300, 1), Rat(1, 0), Rat(-1, 0), Rat(0, 0)}

I32Values == {I32Min, -1, 0, 1, 128, 255, 256, I32Max}

NoScalar == Rat(1, 1)
NoArgs == <<0, 0, 0>>

Returns(op, c) ==
    /\ ~col_done
    /\ col_call.op = op
    /\ col_done' = TRUE
    /\ col_out' = c
    /\ UNCHANGED col_call
    /\ UNCHANGED <<cubeVars, texVars, fbVars, rayVars, camVars, mainVars>>

CallColorAdd == Returns("add", Color_add(col_call.a, col_call.b))
CallColorPlus == Returns("plus", Color_plus(col_call.a, col_call.b))
CallColorMultiply == Returns("multiply", Color_multiply(col_call.a, col_call.s))
CallColorMul == Returns("mul", Color_mul(col_call.a, col_call.s))
CallColorNew == Returns("new", Color_new(col_call.v[1], col_call.v[2], col_call.v[3]))

-----------------------------------------------------------------------------
(* Claims about color.rs *)

Min(a, b) == IF a <= b THEN a ELSE b
Max(a, b) == IF a >= b THEN a ELSE b

\* The product ch * s truncated toward zero and clamped into [0,255], from
\* the sign and size of the exact product; a NaN scalar or product gives 0.
SaturatedProduct(ch, s) ==
    IF s.d = 0
    THEN IF ch > 0 /\ s.n > 0 THEN 255 ELSE 0
    ELSE IF ch * s.n < 0 THEN 0
         ELSE IF ch * s.n > 255 * s.d THEN 255
         ELSE (ch * s.n) \div s.d

\* C6: add (method and operator) yields min(255, a+b) per channel, multiply
\* (method and operator) the truncated product clamped into [0,255], and
\* Color::new clamps each argument into [0,255].
C6_Saturates ==
    col_done =>
        \A i \in 1..3 :
            /\ col_out[i] \in Channel
            /\ col_call.op \in {"add", "plus"} =>
                 col_out[i] = Min(255, col_call.a[i] + col_call.b[i])
            /\ col_call.op \in {"multiply", "mul"} =>
                 col_out[i] = SaturatedProduct(col_call.a[i], col_call.s)
            /\ col_call.op = "new" =>
                 col_out[i] = Max(0, Min(255, col_call.v[i]))

\* An addition that saturates (250 + 20 gives 255), as in the contract's example.
C6_Witness ==
    /\ col_done
    /\ col_call.op = "add"
    /\ col_call.a[1] = 250
    /\ col_call.b[1] = 20
    /\ col_out[1] = 255

-----------------------------------------------------------------------------
(* texture.rs *)

\* A panic (an index outside a Vec) as the value the read would have given.
Panic == <<-1, -1, -1>>

\* v[i] for a Vec v and a 0-based index i.
VecAt(v, i) == IF i \in 0..(Len(v) - 1) THEN v[i + 1] ELSE Panic

\* An f32 given as a fraction, cast `as usize`: NaN and negatives give 0, the
\* cast saturates (UsizeMax stands for usize::MAX: it exceeds every size here).
UsizeMax == I32Max
AsUsize(r) ==
    IF r.d = 0 THEN (IF r.n > 0 THEN UsizeMax ELSE 0)
    ELSE IF r.n < 0 THEN 0 ELSE r.n \div r.d

\* A decoded image: [w, h, tag]; its pixel at (x, y) differs from cell to cell.
ImagePixel(img, x, y) == <<10 * x + 1, 10 * y + 1, img.tag>>

\* Texture::load_color_array: color_array[y * width + x] = from_hex(pixel(x, y)),
\* written here by index k = y * width + x.
load_color_array(img, width, height) ==
    [k \in 1..(width * height) |->
        LET x == (k - 1) % width
            y == (k - 1) \div width
            pixel == ImagePixel(img, x, y)
        IN  Color_from_hex(pixel[1], pixel[2], pixel[3])]

\* A fallback that holds the sentinel colour instead of black.
Texture_black_sentinel ==
    [width |-> 1, height |-> 1, color_array |-> <<Color_from_hex(255, 0, 255)>>]

\* DynamicImage::new_rgb8(1, 1): one zero pixel, so load_color_array leaves black.
Texture_black ==
    [width |-> 1, height |-> 1, color_array |-> <<Color_from_hex(0, 0, 0)>>]

\* Texture::new: f is "missing" (open fails), "corrupt" (decode fails) or an image.
Texture_new(f) ==
    IF f.kind = "missing" THEN Texture_black
    ELSE IF f.kind = "corrupt" THEN Texture_black
    ELSE [width |-> f.w, height |-> f.h,
          color_array |-> load_color_array(f, f.w, f.h)]

Magenta == Color_from_hex(255, 0, 255)

\* Texture::get_color
Texture_get_color(t, x, y) ==
    IF x >= t.width \/ y >= t.height
    THEN Magenta
    ELSE VecAt(t.color_array, y * t.width + x)

\* The indices of color_array that Texture::get_color reads.
Texture_get_color_reads(t, x, y) ==
    IF x >= t.width \/ y >= t.height THEN {} ELSE {y * t.width + x}

-----------------------------------------------------------------------------
(* material.rs *)

\* Material::new
Material_new(diffuse, specular, albedo, emission_color) ==
    [diffuse |-> diffuse, specular |-> specular, albedo |-> albedo,
     has_texture |-> FALSE, texture |-> <<>>, emission_color |-> emission_color]

\* Material::new_with_texture; Option<Arc<Texture>> is a sequence of length <= 1
Material_new_with_texture(specular, albedo, tex, emission_color) ==
    [diffuse |-> Color_new(255, 255, 255), specular |-> specular, albedo |-> albedo,
     has_texture |-> TRUE, texture |-> <<tex>>, emission_color |-> emission_color]

\* Material::black
Material_black ==
    [diffuse |-> Color_new(0, 0, 0), specular |-> Rat(0, 1),
     albedo |-> <<Rat(0, 1), Rat(0, 1)>>,
     has_texture |-> FALSE, texture |-> <<>>, emission_color |-> <<>>]

\* The pixel column and row Material::get_diffuse_color samples:
\* (u * (width - 1)) as usize and ((1 - v) * (height - 1)) as usize.
TexelX(t, u) == AsUsize(Rat(u.n * (t.width - 1), u.d))
\* A row computed without the vertical flip.
TexelY_unflipped(t, v) == AsUsize(Rat(v.n * (t.height - 1), v.d))
TexelY(t, v) == AsUsize(Rat((v.d - v.n) * (t.height - 1), v.d))

\* Material::get_diffuse_color
Material_get_diffuse_color(m, u, v) ==
    IF m.has_texture /\ Len(m.texture) = 1
    THEN Texture_get_color(m.texture[1], TexelX(m.texture[1], u), TexelY(m.texture[1], v))
    ELSE m.diffuse

-----------------------------------------------------------------------------
(* framebuffer.rs *)

\* Framebuffer::new
Framebuffer_new(width, height) ==
    [width |-> width, height |-> height,
     data |-> [k \in 1..(width * height * 3) |-> 0],
     current_color |-> <<0, 0, 0>>, panicked |-> FALSE]

\* data[i] = b for a 0-based index i; an index outside the Vec panics.
VecSet(f, i, b) ==
    IF i \in 0..(Len(f.data) - 1)
    THEN [f EXCEPT !.data[i + 1] = b]
    ELSE [f EXCEPT !.panicked = TRUE]

\* A set_pixel without its bounds check.
Framebuffer_set_pixel_unchecked(f, x, y, r, g, b) ==
    LET index == (y * f.width + x) * 3
    IN  VecSet(VecSet(VecSet(f, index, r), index + 1, g), index + 2, b)

\* Framebuffer::set_pixel (x, y are usize)
Framebuffer_set_pixel(f, x, y, r, g, b) ==
    IF x >= f.width \/ y >= f.height
    THEN f
    ELSE LET index == (y * f.width + x) * 3
         IN  VecSet(VecSet(VecSet(f, index, r), index + 1, g), index + 2, b)

\* f32::round of x2 / 2: halves round away from zero.
RoundHalf(x2) ==
    IF x2 % 2 = 0 THEN x2 \div 2
    ELSE IF x2 > 0 THEN (x2 + 1) \div 2 ELSE (x2 - 1) \div 2

\* Framebuffer::point, for the f32 coordinates x2 / 2 and y2 / 2
Framebuffer_point(f, x2, y2) ==
    LET x == RoundHalf(x2)
        y == RoundHalf(y2)
    IN  IF x < 0 \/ y < 0 \/ x >= f.width \/ y >= f.height
        THEN f
        ELSE Framebuffer_set_pixel(f, x, y, f.current_color[1], f.current_color[2],
                                   f.current_color[3])

\* Framebuffer::set_current_color
Framebuffer_set_current_color(f, color) ==
    [f EXCEPT !.current_color = color]

\* Framebuffer::clear
Framebuffer_clear(f) == [f EXCEPT !.data = [k \in DOMAIN f.data |-> 0]]

-----------------------------------------------------------------------------
(* The inputs of texture, material and framebuffer calls *)

MaxTexDim == 2
FbWidth == 2
FbHeight == 1

Missing == [kind |-> "missing", w |-> 0, h |-> 0, tag |-> 0]
Corrupt == [kind |-> "corrupt", w |-> 0, h |-> 0, tag |-> 0]
Images == {[kind |-> "image", w |-> w, h |-> h, tag |-> g] :
              w \in 1..MaxTexDim, h \in 1..MaxTexDim, g \in {0, 7}}
Files == {Missing, Corrupt} \cup Images

NoTexture == [width |-> 0, height |-> 0, color_array |-> <<>>]
NoTexCall == [x |-> 0, y |-> 0, out |-> Color_black, reads |-> {}, made |-> FALSE]
NoMaterial == [diffuse |-> Color_black, specular |-> Rat(0, 1),
               albedo |-> <<Rat(0, 1), Rat(0, 1)>>, has_texture |-> FALSE,
               texture |-> <<>>, emission_color |-> <<>>, built |-> FALSE]
NoMatCall == [u |-> Rat(0, 1), v |-> Rat(0, 1), out |-> Color_black, made |-> FALSE]
Built(m) == [f \in (DOMAIN m) \cup {"built"} |-> IF f = "built" THEN TRUE ELSE m[f]]

\* Texture coordinates: quarters inside [0,1], and values outside it.
UVs == {Rat(n, 4) : n \in -1..5} \cup {Rat(1, 0), Rat(-1, 0), Rat(0, 0)}
FlatColors == {Color_new(200, 100, 50), Color_new(255, 0, 255)}
Albedo == <<Rat(4, 5), Rat(1, 10)>>

\* Texture::new(file_path)
LoadTexture ==
    /\ texture = NoTexture
    /\ texture' = Texture_new(file)
    /\ UNCHANGED <<file, tex_call, material, mat_call>>
    /\ UNCHANGED <<cubeVars, colorVars, fbVars, rayVars, camVars, mainVars>>

\* Texture::get_color(x, y)
GetColor ==
    /\ texture # NoTexture
    /\ \E x \in 0..(MaxTexDim + 1), y \in 0..(MaxTexDim + 1) :
          tex_call' = [x |-> x, y |-> y, out |-> Texture_get_color(texture, x, y),
                       reads |-> Texture_get_color_reads(texture, x, y), made |-> TRUE]
    /\ UNCHANGED <<file, texture, material, mat_call>>
    /\ UNCHANGED <<cubeVars, colorVars, fbVars, rayVars, camVars, mainVars>>

\* Material::new_with_texture(.., Arc<Texture>, ..)
NewTexturedMaterial ==
    /\ texture # NoTexture
    /\ ~material.built
    /\ material' = Built(Material_new_with_texture(Rat(1, 10), Albedo, texture, <<>>))
    /\ UNCHANGED <<file, texture, tex_call, mat_call>>
    /\ UNCHANGED <<cubeVars, colorVars, fbVars, rayVars, camVars, mainVars>>

\* Material::new(diffuse, ..)
NewFlatMaterial ==
    /\ ~material.built
    /\ \E c \in FlatColors : material' = Built(Material_new(c, Rat(1, 10), Albedo, <<>>))
    /\ UNCHANGED <<file, texture, tex_call, mat_call>>
    /\ UNCHANGED <<cubeVars, colorVars, fbVars, rayVars, camVars, mainVars>>

\* Material::black()
NewBlackMaterial ==
    /\ ~material.built
    /\ material' = Built(Material_black)
    /\ UNCHANGED <<file, texture, tex_call, mat_call>>
    /\ UNCHANGED <<cubeVars, colorVars, fbVars, rayVars, camVars, mainVars>>

\* Material::get_diffuse_color(u, v)
GetDiffuseColor ==
    /\ material.built
    /\ \E u \in UVs, v \in UVs :
          mat_call' = [u |-> u, v |-> v, out |-> Material_get_diffuse_color(material, u, v),
                       made |-> TRUE]
    /\ UNCHANGED <<file, texture, tex_call, material>>
    /\ UNCHANGED <<cubeVars, colorVars, fbVars, rayVars, camVars, mainVars>>

InRange(f, x, y) == x >= 0 /\ y >= 0 /\ x < f.width /\ y < f.height
Observed(f, x, y, after) ==
    [range |-> IF InRange(f, x, y) THEN "in" ELSE "out", changed |-> after.data # f.data]
NoFbCall == [range |-> "none", changed |-> FALSE]

\* Framebuffer::point(x, y) with x = x2 / 2, y = y2 / 2
Point(x2, y2) ==
    /\ fb' = Framebuffer_point(fb, x2, y2)
    /\ fb_last' = Observed(fb, RoundHalf(x2), RoundHalf(y2), fb')
    /\ UNCHANGED <<cubeVars, colorVars, texVars, rayVars, camVars, mainVars>>

\* Framebuffer::set_pixel(x, y, r, g, b)
SetPixel(x, y, c) ==
    /\ fb' = Framebuffer_set_pixel(fb, x, y, c[1], c[2], c[3])
    /\ fb_last' = Observed(fb, x, y, fb')
    /\ UNCHANGED <<cubeVars, colorVars, texVars, rayVars, camVars, mainVars>>

PenColors == {Color_new(255, 255, 255)}

\* Halves on both sides of each edge: -0.5 rounds to -1 and width - 0.5 to width.
HalfCoords(n) == {-2, -1, 0, 1, 2 * n - 2, 2 * n - 1}

CallPoint ==
    \E x2 \in HalfCoords(FbWidth), y2 \in HalfCoords(FbHeight) : Point(x2, y2)

CallSetPixel ==
    \E x \in 0..(FbWidth + 1), y \in 0..(FbHeight + 1), c \in PenColors : SetPixel(x, y, c)

CallSetCurrentColor ==
    /\ \E c \in PenColors \cup {Color_black} : fb' = Framebuffer_set_current_color(fb, c)
    /\ UNCHANGED fb_last
    /\ UNCHANGED <<cubeVars, colorVars, texVars, rayVars, camVars, mainVars>>

CallClear ==
    /\ fb' = Framebuffer_clear(fb)
    /\ UNCHANGED fb_last
    /\ UNCHANGED <<cubeVars, colorVars, texVars, rayVars, camVars, mainVars>>

-----------------------------------------------------------------------------
(* Claims about texture.rs, material.rs and framebuffer.rs *)

\* C7, texture half: out of range, get_color returns magenta and reads no
\* element; in range it returns element y*width + x; no read panics.
C7_TextureBounds ==
    tex_call.made =>
        /\ tex_call.out # Panic
        /\ IF tex_call.x >= texture.width \/ tex_call.y >= texture.height
           THEN tex_call.out = <<255, 0, 255>> /\ tex_call.reads = {}
           ELSE /\ tex_call.y * texture.width + tex_call.x < Len(texture.color_array)
                /\ tex_call.out =
                      texture.color_array[tex_call.y * texture.width + tex_call.x + 1]
                /\ tex_call.reads = {tex_call.y * texture.width + tex_call.x}

\* C7, framebuffer half: a point or set_pixel call with coordinates outside
\* [0,width) x [0,height) changes no byte of the buffer, and no write panics.
C7_FramebufferBounds ==
    /\ ~fb.panicked
    /\ fb_last.range = "out" => ~fb_last.changed

C8_FailsSoft ==
    texture # NoTexture =>
        /\ file.kind \in {"missing", "corrupt"} =>
              /\ texture.width = 1
              /\ texture.height = 1
              /\ texture.color_array = <<(<<0, 0, 0>>)>>
        /\ Len(texture.color_array) = texture.width * texture.height

\* A file that fails to decode has been loaded as a texture.
C8_Witness ==
    /\ file.kind = "corrupt"
    /\ texture # NoTexture
    /\ texture.width = 1

InUnit(r) == r.d > 0 /\ 0 <= r.n /\ r.n <= r.d

\* C9: with a texture, for u, v in [0,1] get_diffuse_color returns the texel
\* at (floor(u*(w-1)), floor((1-v)*(h-1))), which lies inside the texture (so
\* v = 1 reads row 0 and the sentinel is never returned); without a texture
\* it returns the flat diffuse colour for every u, v.
C9_DiffuseColor ==
    mat_call.made =>
        IF material.has_texture
        THEN InUnit(mat_call.u) /\ InUnit(mat_call.v) =>
                LET t == material.texture[1]
                    x == (mat_call.u.n * (t.width - 1)) \div mat_call.u.d
                    y == ((mat_call.v.d - mat_call.v.n) * (t.height - 1)) \div mat_call.v.d
                IN  /\ x < t.width
                    /\ y < t.height
                    /\ mat_call.v.n = mat_call.v.d => y = 0
                    /\ mat_call.out = t.color_array[y * t.width + x + 1]
                    /\ mat_call.out # Magenta
                    /\ (file.kind = "image" => mat_call.out = <<10 * x + 1, 10 * y + 1, file.tag>>)
        ELSE mat_call.out = material.diffuse

\* A textured material of height 2 sampled at v = 1 has returned its top row.
C9_Witness ==
    /\ mat_call.made
    /\ material.has_texture
    /\ material.texture[1].height = 2
    /\ mat_call.v = Rat(4, 4)
    /\ mat_call.u = Rat(0, 4)
    /\ mat_call.out = material.texture[1].color_array[1]

-----------------------------------------------------------------------------
(* main.rs: the shading integrator *)

\* Lengths in the shading model are whole multiples of BIAS = 0.001, so the
\* length 1.0 is WorldUnit.  A direction is held as an integer vector parallel
\* to it with components in {-1,0,1}, and a distance along a ray as the ray
\* parameter over that vector in half units, which orders the hits of one ray
\* as the code's f32 distances do.
BIAS == 1
WorldUnit == 1000

SKYBOX_COLOR == Color_new(135, 206, 235)
AMBIENT_LIGHT_COLOR == Color_new(50, 50, 50)
AMBIENT_INTENSITY == Rat(3, 10)

Dot(a, b) == a[1] * b[1] + a[2] * b[2] + a[3] * b[3]
VAdd(a, b) == [i \in Axes |-> a[i] + b[i]]
VSub(a, b) == [i \in Axes |-> a[i] - b[i]]
VScale(a, s) == [i \in Axes |-> a[i] * s]
Abs(n) == IF n < 0 THEN -n ELSE n

\* f32 products and differences of the scalars of the lighting formula
\* (d = 0 holds +inf, -inf and NaN; 0 * inf is NaN).
RatMul(a, b) ==
    IF a.d = 0 \/ b.d = 0
    THEN Rat(Sign(a.n) * Sign(b.n), 0)
    ELSE Rat(a.n * b.n, a.d * b.d)

RatOneMinus(r) ==
    IF r.d = 0 THEN Rat(-Sign(r.n), 0) ELSE Rat(r.d - r.n, r.d)

\* x.max(0.0).min(1.0); f32::max returns the other operand for a NaN.
Clamp01(r) ==
    IF r.d = 0 THEN (IF r.n > 0 THEN Rat(1, 1) ELSE Rat(0, 1))
    ELSE IF r.n <= 0 THEN Rat(0, 1)
    ELSE IF r.n >= r.d THEN Rat(1, 1) ELSE r

\* 1/sqrt(n) for the squared lengths 1, 2, 3 of a direction vector, to four
\* decimal places.
InvSqrt(n) ==
    IF n = 1 THEN Rat(1, 1) ELSE IF n = 2 THEN Rat(7071, 10000) ELSE Rat(5773, 10000)

\* Intersect::empty(): the no-hit record.
Intersect_empty ==
    [some |-> FALSE, point |-> <<0, 0, 0>>, normal |-> <<0, 0, 0>>,
     distance |-> PosInf, material |-> Material_black, is_intersecting |-> FALSE]

\* object.ray_intersect(origin, direction): the cube's intersection as an
\* Intersect, the no-hit record when there is none.
ray_intersect(object, origin, direction) ==
    LET i == RayIntersect_intersect(object, origin, direction)
    IN  IF i.some THEN i ELSE Intersect_empty

\* object.position(): the emitter's reference position, as twice the centre.
Cube_position(object) == VAdd(object.min, object.max)

\* Light::new
Light_new(position, color, intensity) ==
    [position |-> position, color |-> color, intensity |-> intensity]

\* intersect.point in whole units (hit points of these rays are whole).
HitPoint(intersect) == [i \in Axes |-> intersect.point[i] \div 2]

\* offset_origin
offset_origin(intersect, direction) ==
    LET offset == VScale(intersect.normal, BIAS)
    IN  IF Dot(direction, intersect.normal) < 0
        THEN VSub(HitPoint(intersect), offset)
        ELSE VAdd(HitPoint(intersect), offset)

\* The loop of cast_shadow from object k on: the first object the shadow ray
\* hits before the light decides, and the loop breaks there.
RECURSIVE shadow_from(_, _, _, _, _)
shadow_from(k, objects, shadow_ray_origin, light_dir, light_distance) ==
    IF k > Len(objects) THEN Rat(0, 1)
    ELSE LET shadow_intersect == ray_intersect(objects[k], shadow_ray_origin, light_dir)
         IN  IF shadow_intersect.is_intersecting
                /\ FLt(shadow_intersect.distance, light_distance)
             THEN IF objects[k].material.emission_color # <<>>
                  THEN Rat(light_distance * light_distance,
                           shadow_intersect.distance * shadow_intersect.distance)
                  ELSE Rat(1, 1)
             ELSE shadow_from(k + 1, objects, shadow_ray_origin, light_dir, light_distance)

\* cast_shadow
cast_shadow(intersect, objects, light_dir, light_distance) ==
    shadow_from(1, objects, offset_origin(intersect, light_dir), light_dir, light_distance)

\* A scan that lets a later object replace an equally distant earlier one.
RECURSIVE closest_or_equal(_, _, _, _, _, _)
closest_or_equal(k, objects, origin, direction, zbuffer, intersect) ==
    IF k > Len(objects) THEN intersect
    ELSE LET i == ray_intersect(objects[k], origin, direction)
         IN  IF i.is_intersecting /\ ~FLt(zbuffer, i.distance)
             THEN closest_or_equal(k + 1, objects, origin, direction, i.distance, i)
             ELSE closest_or_equal(k + 1, objects, origin, direction, zbuffer, intersect)

\* The scan of cast_ray from object k on, with the zbuffer and record so far.
RECURSIVE closest(_, _, _, _, _, _)
closest(k, objects, origin, direction, zbuffer, intersect) ==
    IF k > Len(objects) THEN intersect
    ELSE LET i == ray_intersect(objects[k], origin, direction)
         IN  IF i.is_intersecting /\ FLt(i.distance, zbuffer)
             THEN closest(k + 1, objects, origin, direction, i.distance, i)
             ELSE closest(k + 1, objects, origin, direction, zbuffer, intersect)

\* The record cast_ray shades: Intersect::empty(), then the scan, zbuffer = INFINITY.
closest_hit(objects, origin, direction) ==
    closest(1, objects, origin, direction, PosInf, Intersect_empty)

\* The number of steps of a vector with components in {0, k, -k}.
Steps(v) == Max(Max(Abs(v[1]), Abs(v[2])), Abs(v[3]))

\* (light.position - intersect.point).normalize(), as the parallel integer
\* vector, and .magnitude(), as the ray parameter over it in half units.
LightDir(light, intersect) ==
    LET delta == VSub(light.position, HitPoint(intersect))
    IN  IF Steps(delta) = 0 THEN delta
        ELSE [i \in Axes |-> Sign(delta[i]) * (Abs(delta[i]) \div Steps(delta))]

LightDistance(light, intersect) ==
    2 * Steps(VSub(light.position, HitPoint(intersect)))

\* (ray_origin - intersect.point).normalize(): against the ray when the hit
\* is ahead of the origin, along it when it is behind, NaN when it is at it.
ViewDir(r_direction, intersect) ==
    VScale(r_direction, -Sign(intersect.distance))

\* reflect(incident, normal) = incident - 2.0 * incident.dot(normal) * normal
reflect(incident, normal) ==
    VSub(incident, VScale(normal, 2 * Dot(incident, normal)))

\* view_dir.dot(&reflect_dir).max(0.0).powf(specular): 1 for the exponent 0,
\* 0 for a cosine <= 0, 1 for the cosine 1, and `gloss` for a cosine strictly
\* between (the power is irrational there; gloss ranges over GlossLevels).
SpecularIntensity(view_dir, reflect_dir, specular, gloss) ==
    LET c == Dot(view_dir, reflect_dir)
    IN  IF specular.n = 0 THEN Rat(1, 1)
        ELSE IF c <= 0 THEN Rat(0, 1)
        ELSE IF c * c = Dot(view_dir, view_dir) * Dot(reflect_dir, reflect_dir)
        THEN Rat(1, 1)
        ELSE gloss

\* intersect.normal.dot(&light_dir).max(0.0).min(1.0)
DiffuseIntensity(normal, light_dir) ==
    Clamp01(RatMul(Rat(Dot(normal, light_dir), 1), InvSqrt(Dot(light_dir, light_dir))))

\* One pass of the loop over the lights: the shadow intensity and the two
\* terms added to total_light.  Intersect's u and v keep their default 0.0.
LightPass(light, intersect, r_direction, objects, gloss) ==
    LET light_dir == LightDir(light, intersect)
        light_distance == LightDistance(light, intersect)
        view_dir == ViewDir(r_direction, intersect)
        reflect_dir == reflect(VScale(light_dir, -1), intersect.normal)
        shadow_intensity == cast_shadow(intersect, objects, light_dir, light_distance)
        light_intensity == RatMul(light.intensity, RatOneMinus(shadow_intensity))
        diffuse_intensity == DiffuseIntensity(intersect.normal, light_dir)
        diffuse_color ==
            Material_get_diffuse_color(intersect.material, Rat(0, 1), Rat(0, 1))
        specular_intensity ==
            SpecularIntensity(view_dir, reflect_dir, intersect.material.specular, gloss)
    IN  [shadow |-> shadow_intensity,
         diffuse |->
            Color_mul(Color_mul(Color_mul(diffuse_color, intersect.material.albedo[1]),
                                diffuse_intensity), light_intensity),
         specular |->
            Color_mul(Color_mul(Color_mul(light.color, intersect.material.albedo[2]),
                                specular_intensity), light_intensity)]

\* total_light after the lights from k on: total_light + diffuse + specular each.
RECURSIVE LightLoop(_, _, _, _, _, _, _)
LightLoop(k, lights, total_light, intersect, r_direction, objects, gloss) ==
    IF k > Len(lights) THEN total_light
    ELSE LET pass == LightPass(lights[k], intersect, r_direction, objects, gloss)
         IN  LightLoop(k + 1, lights,
                       Color_plus(Color_plus(total_light, pass.diffuse), pass.specular),
                       intersect, r_direction, objects, gloss)

num_rays == 16

\* emission_strength / (1.0 + emission_distance * emission_distance), the
\* distance taken from twice the offset between the emitter and the hit point.
EmissionIntensity(object, intersect) ==
    LET twice == VSub(Cube_position(object), intersect.point)
    IN  Rat(4 * WorldUnit * WorldUnit,
            num_rays * (4 * WorldUnit * WorldUnit + Dot(twice, twice)))

\* The inner loop over the samples from j on; samples[j] is
\* intersect.normal.dot(&generate_random_direction()).max(0.0) of sample j.
RECURSIVE SampleLoop(_, _, _, _, _)
SampleLoop(j, samples, emission, emission_intensity, contribution) ==
    IF j > num_rays THEN contribution
    ELSE SampleLoop(j + 1, samples, emission, emission_intensity,
                    Color_plus(contribution,
                               Color_mul(Color_mul(emission, samples[j]), emission_intensity)))

\* The loop over the objects from k on that adds the emitters' light.
RECURSIVE EmissionLoop(_, _, _, _, _)
EmissionLoop(k, objects, intersect, samples, contribution) ==
    IF k > Len(objects) THEN contribution
    ELSE IF objects[k].material.emission_color # <<>>
    THEN EmissionLoop(k + 1, objects, intersect, samples,
                      SampleLoop(1, samples, objects[k].material.emission_color[1],
                                 EmissionIntensity(objects[k], intersect), contribution))
    ELSE EmissionLoop(k + 1, objects, intersect, samples, contribution)

\* clamp_color
clamp_color(color) ==
    Color_new(Max(Min(color[1], 255), 0), Max(Min(color[2], 255), 0),
              Max(Min(color[3], 255), 0))

\* get_skybox_color: the texel of the skybox the direction maps to; the
\* skybox of the model has one texel.
get_skybox_color(r_direction, skybox) == skybox.color_array[1]

DepthLimit == 3

\* cast_ray
cast_ray(r_origin, r_direction, objects, lights, skybox, depth, gloss, samples) ==
    IF depth >= DepthLimit THEN SKYBOX_COLOR
    ELSE LET intersect == closest_hit(objects, r_origin, r_direction)
         IN  IF ~intersect.is_intersecting
             THEN get_skybox_color(r_direction, skybox)
             ELSE LET ambient_light == Color_mul(AMBIENT_LIGHT_COLOR, AMBIENT_INTENSITY)
                      total_light == LightLoop(1, lights, ambient_light, intersect,
                                               r_direction, objects, gloss)
                      emission_contribution ==
                          EmissionLoop(1, objects, intersect, samples, Color_black)
                  IN  clamp_color(Color_plus(total_light, emission_contribution))

\* The emitters among the objects.
Emitters(objects) == {k \in 1..Len(objects) : objects[k].material.emission_color # <<>>}

NoWork == [tested |-> 0, lit |-> 0, shadow_rays |-> 0, samples |-> 0, nested |-> 0,
           deepest |-> 0]

\* A cast_ray that scans the objects before it looks at its depth.
cast_ray_work_scans_first(objects, lights, depth, intersect) ==
    IF depth >= DepthLimit
    THEN [NoWork EXCEPT !.tested = Len(objects), !.deepest = depth]
    ELSE [NoWork EXCEPT !.tested = Len(objects), !.deepest = depth,
                        !.lit = IF intersect.is_intersecting THEN Len(lights) ELSE 0]

\* The work of one cast_ray call along its three paths: the ray_intersect
\* calls of the scan, the passes of the loop over the lights, the
\* cast_shadow calls, the emission samples, the cast_ray calls made from the
\* body (it makes none) and the greatest depth any call of the chain had.
cast_ray_work(objects, lights, depth, intersect) ==
    IF depth >= DepthLimit THEN [NoWork EXCEPT !.deepest = depth]
    ELSE IF ~intersect.is_intersecting
    THEN [NoWork EXCEPT !.tested = Len(objects), !.deepest = depth]
    ELSE [tested |-> Len(objects), lit |-> Len(lights), shadow_rays |-> Len(lights),
          samples |-> num_rays * Cardinality(Emitters(objects)), nested |-> 0,
          deepest |-> depth]

(* The inputs of a cast_ray call *)

MaxObjects == 2

Grass == Material_new(Color_new(60, 200, 40), Rat(1, 10), <<Rat(4, 5), Rat(1, 10)>>, <<>>)
Stone == Material_new(Color_new(120, 120, 120), Rat(1, 5), <<Rat(9, 10), Rat(1, 20)>>, <<>>)
Glow == Material_new(Color_new(255, 255, 255), Rat(50, 1), <<Rat(9, 10), Rat(1, 10)>>,
                     <<Color_new(255, 255, 0)>>)

\* A block, a second block in the same place, a block above it, one beside
\* its +x face, and an emitter beside its -x face.
Block == [min |-> <<0, 0, 0>>, max |-> <<4, 4, 4>>, material |-> Grass]
Twin == [min |-> <<0, 0, 0>>, max |-> <<4, 4, 4>>, material |-> Stone]
Roof == [min |-> <<0, 8, 0>>, max |-> <<4, 10, 4>>, material |-> Stone]
Side == [min |-> <<5, 3, 0>>, max |-> <<7, 5, 4>>, material |-> Stone]
Lamp == [min |-> <<-6, 4, 0>>, max |-> <<-4, 8, 4>>, material |-> Glow]
Palette == {Block, Twin, Roof, Side, Lamp}

ObjectLists == UNION {[1..n -> Palette] : n \in 1..MaxObjects}

\* Rays onto the top and the +x face of the block, from inside it, and past
\* everything; calls at the depth limit, below it and above it.
Primary(o, d, depth) == [origin |-> o, direction |-> d, depth |-> depth]
Primaries ==
    {Primary(<<8, 10, 2>>, <<-1, -1, 0>>, 0), Primary(<<2, 12, 2>>, <<0, -1, 0>>, 0),
     Primary(<<10, 2, 2>>, <<-1, 0, 0>>, 0), Primary(<<2, 2, 2>>, <<0, 1, 0>>, 0),
     Primary(<<2, 12, 2>>, <<0, 1, 0>>, 0), Primary(<<10, 2, 2>>, <<1, 0, 0>>, 0),
     Primary(<<8, 10, 2>>, <<-1, -1, 0>>, DepthLimit),
     Primary(<<2, 12, 2>>, <<0, -1, 0>>, DepthLimit - 1),
     Primary(<<2, 12, 2>>, <<0, 1, 0>>, DepthLimit + 1)}

\* No light, or one light a few steps from the point the ray hits, by day
\* (white, 1.0) or by night ((10,10,10), 0.5).
LightDirs == {<<0, 1, 0>>, <<1, 1, 0>>, <<-1, 0, 0>>, <<0, -1, 0>>}
LightReach == {3, 12}
LightKinds == {[color |-> Color_new(255, 255, 255), intensity |-> Rat(1, 1)],
               [color |-> Color_new(10, 10, 10), intensity |-> Rat(1, 2)]}
LightLists(intersect) ==
    {<<>>} \cup
    {<<Light_new(VAdd(HitPoint(intersect), VScale(u, k)), kind.color, kind.intensity)>> :
        u \in LightDirs, k \in LightReach, kind \in LightKinds}

Skybox == [width |-> 1, height |-> 1, color_array |-> <<Color_new(10, 20, 30)>>]

GlossLevels == {Rat(1, 100), Rat(9, 10)}
SampleRuns == {[j \in 1..num_rays |-> Rat(0, 1)],
               [j \in 1..num_rays |-> IF j % 2 = 0 THEN Rat(1, 2) ELSE Rat(1, 1)]}

NoRayOut == [made |-> FALSE, scanned |-> FALSE, color |-> Color_black,
             intersect |-> Intersect_empty, passes |-> <<>>, work |-> NoWork]

\* cast_ray(&primary.origin, &primary.direction, &objects, &lights, &skybox,
\* primary.depth); the record keeps the colour returned, the record the scan
\* selected, what each pass over a light computed and the work done.
CallCastRay ==
    /\ ~ray_out.made
    /\ LET intersect == closest_hit(scene_objects, primary.origin, primary.direction)
           scanned == primary.depth < DepthLimit
       IN  ray_out' =
             [made |-> TRUE, scanned |-> scanned,
              color |-> cast_ray(primary.origin, primary.direction, scene_objects, scene_lights,
                                 Skybox, primary.depth, chance.gloss, chance.samples),
              intersect |-> IF scanned THEN intersect ELSE Intersect_empty,
              passes |-> IF scanned /\ intersect.is_intersecting
                         THEN [k \in 1..Len(scene_lights) |->
                                 LightPass(scene_lights[k], intersect, primary.direction,
                                           scene_objects, chance.gloss)]
                         ELSE <<>>,
              work |-> cast_ray_work(scene_objects, scene_lights, primary.depth,
                                     intersect)]
    /\ UNCHANGED <<scene_objects, scene_lights, primary, chance>>
    /\ UNCHANGED <<cubeVars, colorVars, texVars, fbVars, camVars, mainVars>>

(* Claims about the scan and the shadow *)

Hits ==
    {k \in 1..Len(scene_objects) :
        RayIntersect_intersect(scene_objects[k], primary.origin, primary.direction).some}
DistanceOf(k) ==
    RayIntersect_intersect(scene_objects[k], primary.origin, primary.direction).distance
Nearest == {k \in Hits : \A j \in Hits : DistanceOf(k) <= DistanceOf(j)}
FirstNearest == CHOOSE k \in Nearest : \A j \in Nearest : k <= j

\* C5: the scan selects an intersecting object at the minimum distance over
\* the intersecting scene_objects of the list, the first of them in list order when
\* several share it, and leaves the no-hit record when none intersects.
C5_ClosestHit ==
    ray_out.made /\ ray_out.scanned =>
        IF Hits = {}
        THEN ~ray_out.intersect.is_intersecting
        ELSE /\ ray_out.intersect.is_intersecting
             /\ ray_out.intersect.distance = DistanceOf(FirstNearest)
             /\ ray_out.intersect.material = scene_objects[FirstNearest].material

\* Two scene_objects of different materials tie for the nearest hit and the scan
\* has run.
C5_Witness ==
    /\ ray_out.made
    /\ ray_out.scanned
    /\ Cardinality(Nearest) >= 2
    /\ \E k \in Nearest : scene_objects[k].material # scene_objects[FirstNearest].material

\* The shadow ray toward the only light hits scene_objects[k] before the light.
ShadowRayHits(k) ==
    LET light_dir == LightDir(scene_lights[1], ray_out.intersect)
        s == ray_intersect(scene_objects[k], offset_origin(ray_out.intersect, light_dir), light_dir)
    IN  s.is_intersecting /\ FLt(s.distance, LightDistance(scene_lights[1], ray_out.intersect))

Without(k) == SubSeq(scene_objects, 1, k - 1) \o SubSeq(scene_objects, k + 1, Len(scene_objects))

\* The colour of the same call on the scene without scene_objects[k].
ColorWithout(k) ==
    cast_ray(primary.origin, primary.direction, Without(k), scene_lights, Skybox,
             primary.depth, chance.gloss, chance.samples)

Brighter(a, b) ==
    /\ \A c \in 1..3 : a[c] >= b[c]
    /\ \E c \in 1..3 : a[c] > b[c]

\* A call with one light and no emitter whose ray hit something.
OneLightHit ==
    /\ ray_out.made
    /\ ray_out.intersect.is_intersecting
    /\ Len(scene_lights) = 1
    /\ \A k \in 1..Len(scene_objects) : scene_objects[k].material.emission_color = <<>>

\* The shadow ray meets scene_objects[k] ahead of its origin and before the light.
LiesBetween(k) ==
    LET light_dir == LightDir(scene_lights[1], ray_out.intersect)
        s == ray_intersect(scene_objects[k],
                           offset_origin(ray_out.intersect, light_dir), light_dir)
    IN  ShadowRayHits(k) /\ s.distance >= 0

\* scene_objects[k] is not the object the ray hit, it lies between the hit
\* point and the light, and no third object is on the shadow ray.
TheOccluder(k) ==
    /\ k # FirstNearest
    /\ LiesBetween(k)
    /\ \A j \in 1..Len(scene_objects) : ShadowRayHits(j) => j \in {k, FirstNearest}

\* C4, the shadowed half: with an occluder on the shadow ray, cast_shadow
\* returns 1.0, the light adds no diffuse and no specular, and cast_ray
\* returns AMBIENT_LIGHT_COLOR * AMBIENT_INTENSITY.
C4_ShadowedIsAmbient ==
    OneLightHit /\ (\E k \in 1..Len(scene_objects) : ShadowRayHits(k)) =>
        /\ ray_out.passes[1].shadow = Rat(1, 1)
        /\ ray_out.passes[1].diffuse = Color_black
        /\ ray_out.passes[1].specular = Color_black
        /\ ray_out.color = <<15, 15, 15>>

\* C4, the lit half: without the occluder the same point is strictly
\* brighter whenever normal . lightDir > 0.
C4_BrighterWithout ==
    OneLightHit =>
        \A k \in 1..Len(scene_objects) :
            /\ TheOccluder(k)
            /\ Dot(ray_out.intersect.normal, LightDir(scene_lights[1], ray_out.intersect)) > 0
            => Brighter(ColorWithout(k), ray_out.color)

\* C4: an occluder between the hit point and the only light leaves exactly
\* the ambient term, and the point is strictly brighter without it whenever
\* normal . lightDir > 0.
C4_OccluderShadows == C4_ShadowedIsAmbient /\ C4_BrighterWithout

OnTheCube ==
    LET c == scene_objects[1]
        p == HitPoint(ray_out.intersect)
    IN  /\ \A i \in Axes : c.min[i] <= p[i] /\ p[i] <= c.max[i]
        /\ \E i \in Axes : p[i] \in {c.min[i], c.max[i]}

\* The open segment from the hit point to the light crosses the cube's
\* interior: the cube is convex and the hit point is on its surface, so it
\* does exactly when it leaves the hit point into the interior on every axis.
EntersTheCube ==
    LET c == scene_objects[1]
        p == HitPoint(ray_out.intersect)
        u == LightDir(scene_lights[1], ray_out.intersect)
    IN  \A i \in Axes :
            \/ c.min[i] < p[i] /\ p[i] < c.max[i]
            \/ p[i] = c.min[i] /\ u[i] > 0
            \/ p[i] = c.max[i] /\ u[i] < 0

\* C15: with a single cube and a light, at a hit point on a face from which
\* the light is visible, cast_shadow returns 0: the cube that was struck is
\* not the occluder of its own surface point.
C15_NoSelfShadow ==
    ( /\ ray_out.made
      /\ Len(scene_objects) = 1
      /\ Len(scene_lights) = 1
      /\ ray_out.intersect.is_intersecting
      /\ FGe(ray_out.intersect.distance, 0)
      /\ OnTheCube
      /\ ~EntersTheCube ) =>
        ray_out.passes[1].shadow = Rat(0, 1)

\* The first object the shadow ray of the one light hits before the light.
FirstShadowHit ==
    CHOOSE k \in 1..Len(scene_objects) :
        ShadowRayHits(k) /\ \A j \in 1..(k - 1) : ~ShadowRayHits(j)

\* C16: the value cast_shadow returns lies in [0, 1], so
\* light.intensity * (1 - shadow_intensity) is not negative, and an emissive
\* occluder gives a value strictly below 1.
C16_ShadowInUnit ==
    (ray_out.made /\ ray_out.passes # <<>>) =>
        LET shadow_intensity == ray_out.passes[1].shadow
            light_intensity ==
                RatMul(scene_lights[1].intensity, RatOneMinus(shadow_intensity))
        IN  /\ shadow_intensity.d > 0
            /\ 0 <= shadow_intensity.n
            /\ shadow_intensity.n <= shadow_intensity.d
            /\ light_intensity.n >= 0
            /\ ( /\ \E k \in 1..Len(scene_objects) : ShadowRayHits(k)
                 /\ scene_objects[FirstShadowHit].material.emission_color # <<>> ) =>
                   shadow_intensity.n < shadow_intensity.d


-----------------------------------------------------------------------------
(* camera.rs *)

\* The eye stays in the horizontal plane of the centre, on one of the four
\* axis directions from it, and orbit turns by quarter turns with no pitch,
\* so every coordinate is a whole number; a NaN eye has NaN in every
\* coordinate.
NaNVec == <<NaN, NaN, NaN>>

Cross(a, b) ==
    <<a[2] * b[3] - a[3] * b[2], a[3] * b[1] - a[1] * b[3], a[1] * b[2] - a[2] * b[1]>>

\* v.normalize() for a vector along an axis; the zero vector gives NaN.
Normalize(v) ==
    IF v = NaNVec \/ v = <<0, 0, 0>> THEN NaNVec ELSE [i \in Axes |-> Sign(v[i])]

\* Camera::new
Camera_new(eye, center, up) ==
    [eye |-> eye, center |-> center, up |-> up, has_changed |-> TRUE]

\* Camera::basis_change
Camera_basis_change(self, vector) ==
    LET forward == Normalize(IF self.eye = NaNVec THEN NaNVec
                             ELSE VSub(self.center, self.eye))
    IN  IF forward = NaNVec THEN NaNVec
        ELSE LET right == Normalize(Cross(forward, self.up))
                 up == Cross(right, forward)
             IN  VSub(VAdd(VScale(right, vector[1]), VScale(up, vector[2])),
                      VScale(forward, vector[3]))

\* Camera::orbit(delta_yaw, 0.0) with delta_yaw = quarters * PI/2: the radius
\* vector (x, 0, z) turns to radius * (cos new_yaw, 0, sin new_yaw).
Camera_orbit(self, quarters) ==
    LET radius_vector == IF self.eye = NaNVec THEN NaNVec ELSE VSub(self.eye, self.center)
        turned == IF quarters % 4 = 0 THEN radius_vector
                  ELSE IF quarters % 4 = 1 THEN <<-radius_vector[3], 0, radius_vector[1]>>
                  ELSE IF quarters % 4 = 2 THEN <<-radius_vector[1], 0, -radius_vector[3]>>
                  ELSE <<radius_vector[3], 0, -radius_vector[1]>>
    IN  [self EXCEPT !.eye = IF radius_vector = NaNVec THEN NaNVec
                              ELSE VAdd(self.center, turned),
                     !.has_changed = TRUE]

\* Camera::zoom
Camera_zoom(self, delta) ==
    LET direction == Normalize(IF self.eye = NaNVec THEN NaNVec
                               ELSE VSub(self.center, self.eye))
    IN  [self EXCEPT !.eye = IF direction = NaNVec THEN NaNVec
                              ELSE VAdd(self.eye, VScale(direction, delta)),
                     !.has_changed = TRUE]

\* An is_changed that reports the flag and leaves it set.
Camera_is_changed_keeps(self) ==
    [camera |-> self, ret |-> self.has_changed]

\* Camera::is_changed: the camera after the call and the value returned.
Camera_is_changed(self) ==
    IF self.has_changed
    THEN [camera |-> [self EXCEPT !.has_changed = FALSE], ret |-> TRUE]
    ELSE [camera |-> self, ret |-> FALSE]

(* The calls on a Camera *)

MaxCalls == 6
MaxRadius == 3

NoCamera == [eye |-> <<0, 0, 0>>, center |-> <<0, 0, 0>>, up |-> <<0, 0, 0>>,
             has_changed |-> FALSE]
NoCamCall == [op |-> "none", calls |-> 0, ret |-> FALSE, vector |-> <<0, 0, 0>>,
              out |-> <<0, 0, 0>>, was_pending |-> FALSE, pending |-> FALSE]

Radius(c) == IF c.eye = NaNVec THEN 0 ELSE Steps(VSub(c.eye, c.center))

\* cam_call after a call: `pending` says whether a construction, orbit or
\* zoom has happened since the last is_changed call.
Logged(op, ret, vector, out, pending) ==
    [op |-> op, calls |-> cam_call.calls + 1, ret |-> ret, vector |-> vector,
     out |-> out, was_pending |-> cam_call.pending, pending |-> pending]

NewCamera ==
    /\ cam_call.op = "none"
    /\ \E r \in 1..MaxRadius, center \in {<<0, 0, 0>>, <<1, 0, 1>>} :
          camera' = Camera_new(VAdd(center, <<0, 0, r>>), center, <<0, 1, 0>>)
    /\ cam_call' = Logged("new", FALSE, <<0, 0, 0>>, <<0, 0, 0>>, TRUE)
    /\ UNCHANGED <<cubeVars, colorVars, texVars, fbVars, rayVars, mainVars>>

Orbit ==
    /\ cam_call.op # "none"
    /\ cam_call.calls < MaxCalls
    /\ \E quarters \in 0..3 : camera' = Camera_orbit(camera, quarters)
    /\ cam_call' = Logged("orbit", FALSE, <<0, 0, 0>>, <<0, 0, 0>>, TRUE)
    /\ UNCHANGED <<cubeVars, colorVars, texVars, fbVars, rayVars, mainVars>>

Zoom ==
    /\ cam_call.op # "none"
    /\ cam_call.calls < MaxCalls
    /\ \E delta \in {-1, 0, 1, 2} :
          /\ Radius(camera) - delta <= MaxRadius
          /\ delta - Radius(camera) <= MaxRadius
          /\ camera' = Camera_zoom(camera, delta)
    /\ cam_call' = Logged("zoom", FALSE, <<0, 0, 0>>, <<0, 0, 0>>, TRUE)
    /\ UNCHANGED <<cubeVars, colorVars, texVars, fbVars, rayVars, mainVars>>

IsChanged ==
    /\ cam_call.op # "none"
    /\ cam_call.calls < MaxCalls
    /\ camera' = Camera_is_changed(camera).camera
    /\ cam_call' = Logged("is_changed", Camera_is_changed(camera).ret,
                          <<0, 0, 0>>, <<0, 0, 0>>, FALSE)
    /\ UNCHANGED <<cubeVars, colorVars, texVars, fbVars, rayVars, mainVars>>

BasisChange ==
    /\ cam_call.op # "none"
    /\ cam_call.calls < MaxCalls
    /\ \E vector \in {<<0, 0, -1>>, <<1, 0, -1>>, <<0, 1, -1>>} :
          cam_call' = Logged("basis_change", FALSE, vector,
                             Camera_basis_change(camera, vector), cam_call.pending)
    /\ UNCHANGED camera
    /\ UNCHANGED <<cubeVars, colorVars, texVars, fbVars, rayVars, mainVars>>

(* Claims about the Camera *)

\* C10, after each call: a new Camera has the flag set; orbit and zoom set
\* it; is_changed returns true exactly when a construction, orbit or zoom
\* happened since the previous is_changed call, and clears the flag;
\* basis_change returns what it returns with the flag inverted.
C10_AfterCall ==
    /\ cam_call.op \in {"new", "orbit", "zoom"} => camera.has_changed
    /\ cam_call.op = "is_changed" =>
          /\ cam_call.ret = cam_call.was_pending
          /\ ~camera.has_changed
    /\ cam_call.op = "basis_change" =>
          cam_call.out =
             Camera_basis_change([camera EXCEPT !.has_changed = ~@], cam_call.vector)

\* C10, across a call: an is_changed call that directly follows one that
\* returned true returns false, and basis_change leaves the flag as it was.
C10_AcrossCall ==
    /\ cam_call.op = "is_changed" /\ cam_call.ret
       /\ cam_call'.op = "is_changed" /\ cam_call'.calls = cam_call.calls + 1
       => ~cam_call'.ret
    /\ cam_call'.op = "basis_change" /\ cam_call'.calls = cam_call.calls + 1
       => camera'.has_changed = camera.has_changed

\* C10: the Camera's dirty-flag protocol.
C10_DirtyFlag == []C10_AfterCall /\ [][C10_AcrossCall]_vars

\* On a camera that has been orbited, is_changed has returned false because
\* nothing changed since the is_changed call before it.
C10_Witness ==
    /\ cam_call.op = "is_changed"
    /\ ~cam_call.ret
    /\ ~cam_call.was_pending
    /\ cam_call.calls >= 4
    /\ camera.eye # VAdd(camera.center, <<0, 0, Radius(camera)>>)

\* C11: from a camera with eye # center, after any calls of orbit and zoom
\* the eye is still a point other than the centre, so basis_change never
\* normalizes a zero-length forward vector.
C11_NonzeroRadius ==
    cam_call.op # "none" =>
        /\ camera.eye # NaNVec
        /\ camera.eye # camera.center
        /\ cam_call.op = "basis_change" => cam_call.out # NaNVec

-----------------------------------------------------------------------------
(* main.rs: render and the main loop *)

\* The cells a Framebuffer::point call assigns (at most one), by index y * width + x.
CellsWritten(f, x2, y2) ==
    IF InRange(f, RoundHalf(x2), RoundHalf(y2))
    THEN {RoundHalf(y2) * f.width + RoundHalf(x2)}
    ELSE {}

\* An iteration that draws one column to the right of its own.
render_cell_shifted(framebuffer, x, y, pixel_color) ==
    [framebuffer |->
        Framebuffer_point(Framebuffer_set_current_color(framebuffer, pixel_color),
                          2 * (x + 1), 2 * y),
     wrote |-> CellsWritten(framebuffer, 2 * (x + 1), 2 * y)]

\* The body of render's loops at (x, y), once cast_ray has returned
\* pixel_color: set_current_color, then point(x, y); `wrote` is the set of
\* cells the iteration assigned.
render_cell(framebuffer, x, y, pixel_color) ==
    [framebuffer |->
        Framebuffer_point(Framebuffer_set_current_color(framebuffer, pixel_color),
                          2 * x, 2 * y),
     wrote |-> CellsWritten(framebuffer, 2 * x, 2 * y)]

\* for y in 0..height { for x in 0..width { .. } }: the position after (x, y).
render_next(framebuffer, x, y) ==
    IF x + 1 < framebuffer.width THEN [x |-> x + 1, y |-> y] ELSE [x |-> 0, y |-> y + 1]

\* A frame cleared without touching the buffer.
clear_skipped(framebuffer) == framebuffer

\* framebuffer.clear() at the head of the loop body.
main_clear(framebuffer) == Framebuffer_clear(framebuffer)

\* The sky textures and lights main builds before the loop.
skybox_texture == [width |-> 1, height |-> 1, color_array |-> <<Color_new(10, 20, 30)>>]
skybox_night_texture == [width |-> 1, height |-> 1, color_array |-> <<Color_new(1, 2, 3)>>]
daytime_light == Light_new(<<-10, 10, 10>>, Color_new(255, 255, 255), Rat(1, 1))
nighttime_light == Light_new(<<-10, 10, 10>>, Color_new(10, 10, 10), Rat(1, 2))

\* The D / N keys: the sky and light after the swap.
main_swap(key, sky, light) ==
    IF key = "D" THEN [sky |-> skybox_texture, light |-> daytime_light]
    ELSE IF key = "N" THEN [sky |-> skybox_night_texture, light |-> nighttime_light]
    ELSE [sky |-> sky, light |-> light]

\* The four camera keys, tested in the order Left, Right, Up, Down; the
\* model's orbit step is a quarter turn and its zoom step one unit.
main_input(keys, c) ==
    LET c1 == IF "Left" \in keys THEN Camera_orbit(c, 1) ELSE c
        c2 == IF "Right" \in keys THEN Camera_orbit(c1, 3) ELSE c1
        c3 == IF "Up" \in keys THEN Camera_zoom(c2, 1) ELSE c2
    IN  IF "Down" \in keys THEN Camera_zoom(c3, -1) ELSE c3

(* The steps of render and of the main loop *)

MaxFrames == 2

\* What cast_ray returns for a pixel: a sky colour, the ambient colour or a lit one.
PixelColors == {Color_new(10, 20, 30), Color_new(15, 15, 15)}

NoArgsYet == [objects |-> <<>>, lights |-> <<>>, camera |-> NoCamera,
              skybox |-> skybox_texture, data |-> <<>>]
IdlePos == [state |-> "idle", x |-> 0, y |-> 0]

\* The history of the current iteration: its number, the steps taken, the
\* camera at its head, the arguments and buffer at the render call, and per
\* cell the number of writes and the colour cast_ray returned for it.
NoFrame == [n |-> 0, steps |-> <<>>, head_camera |-> NoCamera, args |-> NoArgsYet,
            writes |-> <<>>, drawn |-> <<>>]

\* while window.is_open() && !window.is_key_down(Key::Escape) { framebuffer.clear();
Clear ==
    /\ main_pc = "head"
    /\ frame.n < MaxFrames
    /\ fb' = main_clear(fb)
    /\ frame' = [NoFrame EXCEPT !.n = frame.n + 1, !.steps = <<"clear">>,
                                !.head_camera = camera]
    /\ main_pc' = "cleared"
    /\ UNCHANGED <<fb_last, render_pos, current_skybox, shown>>
    /\ UNCHANGED <<cubeVars, colorVars, texVars, rayVars, camVars>>

\* The loop condition fails.
Exit ==
    /\ main_pc = "head"
    /\ main_pc' = "exited"
    /\ UNCHANGED <<frame, render_pos, current_skybox, shown>>
    /\ UNCHANGED <<cubeVars, colorVars, texVars, fbVars, rayVars, camVars>>

\* if window.is_key_down(Key::D) { .. } else if window.is_key_down(Key::N) { .. }
Swap ==
    /\ main_pc = "cleared"
    /\ \E key \in {"D", "N", "none"} :
          /\ current_skybox' = main_swap(key, current_skybox, scene_lights[1]).sky
          /\ scene_lights' = <<main_swap(key, current_skybox, scene_lights[1]).light>>
          /\ frame' = [frame EXCEPT !.steps =
                          IF key = "none" THEN @ ELSE Append(@, "swap")]
    /\ main_pc' = "ready"
    /\ UNCHANGED <<scene_objects, primary, chance, ray_out>>
    /\ UNCHANGED <<render_pos, shown>>
    /\ UNCHANGED <<cubeVars, colorVars, texVars, fbVars, camVars>>

\* render(&mut framebuffer, &objects, &camera, &[current_light.clone()], &current_skybox_texture)
CallRender ==
    /\ main_pc = "ready"
    /\ main_pc' = "rendering"
    /\ render_pos' = [state |-> "running", x |-> 0, y |-> 0]
    /\ frame' = [frame EXCEPT
                    !.steps = Append(@, "render"),
                    !.args = [objects |-> scene_objects, lights |-> scene_lights,
                              camera |-> camera, skybox |-> current_skybox,
                              data |-> fb.data],
                    !.writes = [c \in 1..(fb.width * fb.height) |-> 0],
                    !.drawn = [c \in 1..(fb.width * fb.height) |-> Color_black]]
    /\ UNCHANGED <<current_skybox, shown>>
    /\ UNCHANGED <<cubeVars, colorVars, texVars, fbVars, rayVars, camVars>>

\* One iteration of render's loops: cast_ray's colour for the pixel, then
\* set_current_color and point.
RenderCell ==
    /\ main_pc = "rendering"
    /\ render_pos.state = "running"
    /\ render_pos.y < fb.height
    /\ \E pixel_color \in PixelColors :
          LET cell == render_cell(fb, render_pos.x, render_pos.y, pixel_color)
              own == render_pos.y * fb.width + render_pos.x + 1
          IN  /\ fb' = cell.framebuffer
              /\ frame' = [frame EXCEPT
                              !.writes = [c \in DOMAIN @ |->
                                            IF c - 1 \in cell.wrote THEN @[c] + 1 ELSE @[c]],
                              !.drawn[own] = pixel_color]
    /\ render_pos' = [state |-> "running",
                      x |-> render_next(fb, render_pos.x, render_pos.y).x,
                      y |-> render_next(fb, render_pos.x, render_pos.y).y]
    /\ UNCHANGED <<main_pc, fb_last, current_skybox, shown>>
    /\ UNCHANGED <<cubeVars, colorVars, texVars, rayVars, camVars>>

\* The loops of render are over.
RenderReturn ==
    /\ main_pc = "rendering"
    /\ render_pos.state = "running"
    /\ render_pos.y >= fb.height
    /\ render_pos' = [render_pos EXCEPT !.state = "returned"]
    /\ main_pc' = "rendered"
    /\ UNCHANGED <<frame, current_skybox, shown>>
    /\ UNCHANGED <<cubeVars, colorVars, texVars, fbVars, rayVars, camVars>>

\* window.update_with_buffer(..)
Present ==
    /\ main_pc = "rendered"
    /\ shown' = fb.data
    /\ frame' = [frame EXCEPT !.steps = Append(@, "present")]
    /\ main_pc' = "presented"
    /\ UNCHANGED <<render_pos, current_skybox>>
    /\ UNCHANGED <<cubeVars, colorVars, texVars, fbVars, rayVars, camVars>>

\* The camera keys, then sleep; the loop returns to its head.
Input ==
    /\ main_pc = "presented"
    /\ \E keys \in SUBSET {"Left", "Right", "Up", "Down"} :
          /\ Radius(main_input(keys, camera)) <= MaxRadius
          /\ camera' = main_input(keys, camera)
          /\ frame' = [frame EXCEPT !.steps = IF keys = {} THEN @ ELSE Append(@, "input")]
    /\ main_pc' = "head"
    /\ render_pos' = IdlePos
    /\ UNCHANGED <<cam_call, current_skybox, shown>>
    /\ UNCHANGED <<cubeVars, colorVars, texVars, fbVars, rayVars>>

(* Claims about render and the main loop *)

\* The three bytes of cell c (1-based) in a buffer's data.
CellBytes(data, c) == <<data[3 * c - 2], data[3 * c - 1], data[3 * c]>>

\* The number of iterations of render's loops that have run.
CellsDone ==
    IF render_pos.state = "returned" THEN fb.width * fb.height
    ELSE render_pos.y * fb.width + render_pos.x

\* C12: one render call writes every cell of the framebuffer exactly once,
\* each iteration writing only its own cell (every other cell keeps the bytes
\* it had), and leaves the object list, the light list, the camera and the
\* sky texture as they were at the call.
C12_RenderWritesOnce ==
    render_pos.state # "idle" =>
        /\ \A c \in 1..(fb.width * fb.height) :
              /\ frame.writes[c] = IF c <= CellsDone THEN 1 ELSE 0
              /\ CellBytes(fb.data, c) =
                    IF c <= CellsDone THEN frame.drawn[c]
                    ELSE CellBytes(frame.args.data, c)
        /\ ~fb.panicked
        /\ scene_objects = frame.args.objects
        /\ scene_lights = frame.args.lights
        /\ camera = frame.args.camera
        /\ current_skybox = frame.args.skybox

\* A render call has returned, over a buffer that held other bytes before.
C12_Witness ==
    /\ render_pos.state = "returned"
    /\ fb.width * fb.height > 1
    /\ \E c \in 1..(fb.width * fb.height) :
          CellBytes(frame.args.data, c) # CellBytes(fb.data, c)
    /\ \E c, d \in 1..(fb.width * fb.height) : frame.drawn[c] # frame.drawn[d]

\* The orders in which one iteration of the main loop takes its steps.
StepOrders ==
    {<<"clear", "render", "present">>,
     <<"clear", "swap", "render", "present">>,
     <<"clear", "render", "present", "input">>,
     <<"clear", "swap", "render", "present", "input">>}

IsPrefix(s, t) == Len(s) <= Len(t) /\ \A i \in 1..Len(s) : s[i] = t[i]

\* C13: the steps of every iteration come in the order clear, (swap,)
\* render, present, (camera input); the camera and the light do not change
\* from the start to the end of a render call; the frame of an iteration is
\* rendered with the camera the iteration started with, so the inputs of an
\* iteration first show in the next one; and the buffer a frame is rendered
\* into, and then presented from, was cleared first.
C13_LoopOrder ==
    /\ \E order \in StepOrders : IsPrefix(frame.steps, order)
    /\ main_pc \in {"rendering", "rendered", "presented"} =>
          /\ camera = frame.args.camera
          /\ scene_lights = frame.args.lights
          /\ frame.args.camera = frame.head_camera
          /\ \A i \in DOMAIN frame.args.data : frame.args.data[i] = 0
    /\ main_pc = "presented" =>
          /\ shown = fb.data
          /\ \A c \in 1..(fb.width * fb.height) : CellBytes(shown, c) = frame.drawn[c]

\* A second frame is presented after camera input in the first, over a
\* buffer that still held the first frame at the head of the iteration.
C13_Witness ==
    /\ main_pc = "presented"
    /\ frame.n = 2
    /\ frame.head_camera # Camera_new(<<0, 0, 2>>, <<0, 0, 0>>, <<0, 1, 0>>)
    /\ frame.head_camera.eye # NaNVec
    /\ \E i \in DOMAIN shown : shown[i] # 0

-----------------------------------------------------------------------------
(* Specifications *)

NoColorCall == [op |-> "none", a |-> Color_black, b |-> Color_black,
                s |-> NoScalar, v |-> NoArgs]
IdleCube == [min |-> <<0, 0, 0>>, max |-> <<1, 1, 1>>, material |-> 1]
IdlePrimary == Primary(<<0, 0, 0>>, <<0, 0, 1>>, 0)
NoChance == [gloss |-> Rat(0, 1), samples |-> <<>>]

\* Calls of the two intersection routines of cube.rs.
InitCube ==
    /\ cube \in Cubes
    /\ ray_origin \in Origins
    /\ ray_direction \in Directions
    /\ called = "none"
    /\ hit = None
    /\ col_call = NoColorCall
    /\ col_done = FALSE
    /\ col_out = Color_black
    /\ file = Missing
    /\ texture = NoTexture
    /\ tex_call = NoTexCall
    /\ material = NoMaterial
    /\ mat_call = NoMatCall
    /\ fb = Framebuffer_new(FbWidth, FbHeight)
    /\ fb_last = NoFbCall
    /\ scene_objects = <<>>
    /\ scene_lights = <<>>
    /\ primary = IdlePrimary
    /\ chance = NoChance
    /\ ray_out = NoRayOut
    /\ camera = NoCamera
    /\ cam_call = NoCamCall
    /\ main_pc = "idle"
    /\ render_pos = IdlePos
    /\ frame = NoFrame
    /\ current_skybox = skybox_texture
    /\ shown = <<>>

NextCube == CallCubeIntersect \/ CallRayIntersect

SpecCube == InitCube /\ [][NextCube]_vars

\* Calls of the Color operations.
InitColor ==
    /\ cube = IdleCube
    /\ ray_origin = <<0, 0, 0>>
    /\ ray_direction = <<0, 0, 1>>
    /\ called = "none"
    /\ hit = None
    /\ \/ \E o \in {"add", "plus"}, a \in ColorsA, b \in ColorsB :
              col_call = [op |-> o, a |-> a, b |-> b, s |-> NoScalar, v |-> NoArgs]
       \/ \E o \in {"multiply", "mul"}, a \in ColorsA, s \in Scalars :
              col_call = [op |-> o, a |-> a, b |-> Color_black, s |-> s, v |-> NoArgs]
       \/ \E v \in Vec(I32Values) :
              col_call = [op |-> "new", a |-> Color_black, b |-> Color_black,
                          s |-> NoScalar, v |-> v]
    /\ col_done = FALSE
    /\ col_out = Color_black
    /\ file = Missing
    /\ texture = NoTexture
    /\ tex_call = NoTexCall
    /\ material = NoMaterial
    /\ mat_call = NoMatCall
    /\ fb = Framebuffer_new(FbWidth, FbHeight)
    /\ fb_last = NoFbCall
    /\ scene_objects = <<>>
    /\ scene_lights = <<>>
    /\ primary = IdlePrimary
    /\ chance = NoChance
    /\ ray_out = NoRayOut
    /\ camera = NoCamera
    /\ cam_call = NoCamCall
    /\ main_pc = "idle"
    /\ render_pos = IdlePos
    /\ frame = NoFrame
    /\ current_skybox = skybox_texture
    /\ shown = <<>>

NextColor ==
    CallColorAdd \/ CallColorPlus \/ CallColorMultiply \/ CallColorMul \/ CallColorNew

SpecColor == InitColor /\ [][NextColor]_vars

\* Texture::new on a file, then materials built on the texture and sampled.
InitTexture ==
    /\ cube = IdleCube
    /\ ray_origin = <<0, 0, 0>>
    /\ ray_direction = <<0, 0, 1>>
    /\ called = "none"
    /\ hit = None
    /\ col_call = NoColorCall
    /\ col_done = FALSE
    /\ col_out = Color_black
    /\ file \in Files
    /\ texture = NoTexture
    /\ tex_call = NoTexCall
    /\ material = NoMaterial
    /\ mat_call = NoMatCall
    /\ fb = Framebuffer_new(FbWidth, FbHeight)
    /\ fb_last = NoFbCall
    /\ scene_objects = <<>>
    /\ scene_lights = <<>>
    /\ primary = IdlePrimary
    /\ chance = NoChance
    /\ ray_out = NoRayOut
    /\ camera = NoCamera
    /\ cam_call = NoCamCall
    /\ main_pc = "idle"
    /\ render_pos = IdlePos
    /\ frame = NoFrame
    /\ current_skybox = skybox_texture
    /\ shown = <<>>

NextTexture ==
    \/ LoadTexture
    \/ NewTexturedMaterial
    \/ NewFlatMaterial
    \/ NewBlackMaterial
    \/ GetDiffuseColor

SpecTexture == InitTexture /\ [][NextTexture]_vars

\* A loaded texture and a new framebuffer, called with any coordinates.
InitBounds ==
    /\ cube = IdleCube
    /\ ray_origin = <<0, 0, 0>>
    /\ ray_direction = <<0, 0, 1>>
    /\ called = "none"
    /\ hit = None
    /\ col_call = NoColorCall
    /\ col_done = FALSE
    /\ col_out = Color_black
    /\ file \in {f \in Files : f.tag = 0}
    /\ texture = Texture_new(file)
    /\ tex_call = NoTexCall
    /\ material = NoMaterial
    /\ mat_call = NoMatCall
    /\ fb = Framebuffer_new(FbWidth, FbHeight)
    /\ fb_last = NoFbCall
    /\ scene_objects = <<>>
    /\ scene_lights = <<>>
    /\ primary = IdlePrimary
    /\ chance = NoChance
    /\ ray_out = NoRayOut
    /\ camera = NoCamera
    /\ cam_call = NoCamCall
    /\ main_pc = "idle"
    /\ render_pos = IdlePos
    /\ frame = NoFrame
    /\ current_skybox = skybox_texture
    /\ shown = <<>>

NextBounds ==
    \/ GetColor
    \/ CallPoint
    \/ CallSetPixel
    \/ CallSetCurrentColor
    \/ CallClear

SpecBounds == InitBounds /\ [][NextBounds]_vars

\* One cast_ray call on a scene, a ray and a light placed from the point the
\* ray hits.
InitRay ==
    /\ cube = IdleCube
    /\ ray_origin = <<0, 0, 0>>
    /\ ray_direction = <<0, 0, 1>>
    /\ called = "none"
    /\ hit = None
    /\ col_call = NoColorCall
    /\ col_done = FALSE
    /\ col_out = Color_black
    /\ file = Missing
    /\ texture = NoTexture
    /\ tex_call = NoTexCall
    /\ material = NoMaterial
    /\ mat_call = NoMatCall
    /\ fb = Framebuffer_new(FbWidth, FbHeight)
    /\ fb_last = NoFbCall
    /\ scene_objects \in ObjectLists
    /\ primary \in Primaries
    /\ scene_lights \in LightLists(closest_hit(scene_objects, primary.origin, primary.direction))
    /\ chance \in [gloss : GlossLevels, samples : SampleRuns]
    /\ ray_out = NoRayOut
    /\ camera = NoCamera
    /\ cam_call = NoCamCall
    /\ main_pc = "idle"
    /\ render_pos = IdlePos
    /\ frame = NoFrame
    /\ current_skybox = skybox_texture
    /\ shown = <<>>

NextRay == CallCastRay

SpecRay == InitRay /\ [][NextRay]_vars

\* The calls on one Camera, in any order after its construction.
InitCamera ==
    /\ cube = IdleCube
    /\ ray_origin = <<0, 0, 0>>
    /\ ray_direction = <<0, 0, 1>>
    /\ called = "none"
    /\ hit = None
    /\ col_call = NoColorCall
    /\ col_done = FALSE
    /\ col_out = Color_black
    /\ file = Missing
    /\ texture = NoTexture
    /\ tex_call = NoTexCall
    /\ material = NoMaterial
    /\ mat_call = NoMatCall
    /\ fb = Framebuffer_new(FbWidth, FbHeight)
    /\ fb_last = NoFbCall
    /\ scene_objects = <<>>
    /\ scene_lights = <<>>
    /\ primary = IdlePrimary
    /\ chance = NoChance
    /\ ray_out = NoRayOut
    /\ camera = NoCamera
    /\ cam_call = NoCamCall
    /\ main_pc = "idle"
    /\ render_pos = IdlePos
    /\ frame = NoFrame
    /\ current_skybox = skybox_texture
    /\ shown = <<>>

NextCamera == NewCamera \/ Orbit \/ Zoom \/ IsChanged \/ BasisChange

SpecCamera == InitCamera /\ [][NextCamera]_vars


\* One render call, over a buffer that is fresh or holds an earlier frame.
InitRender ==
    /\ cube = IdleCube
    /\ ray_origin = <<0, 0, 0>>
    /\ ray_direction = <<0, 0, 1>>
    /\ called = "none"
    /\ hit = None
    /\ col_call = NoColorCall
    /\ col_done = FALSE
    /\ col_out = Color_black
    /\ file = Missing
    /\ texture = NoTexture
    /\ tex_call = NoTexCall
    /\ material = NoMaterial
    /\ mat_call = NoMatCall
    /\ \E old \in {Color_black} \cup PixelColors :
          fb = [Framebuffer_new(FbWidth, FbHeight) EXCEPT
                   !.data = [k \in DOMAIN @ |-> old[((k - 1) % 3) + 1]]]
    /\ fb_last = NoFbCall
    /\ scene_objects \in {<<Block>>, <<Block, Lamp>>}
    /\ scene_lights \in {<<daytime_light>>, <<nighttime_light>>}
    /\ primary = IdlePrimary
    /\ chance = NoChance
    /\ ray_out = NoRayOut
    /\ \E r \in 1..MaxRadius :
          camera = Camera_new(<<0, 0, r>>, <<0, 0, 0>>, <<0, 1, 0>>)
    /\ cam_call = NoCamCall
    /\ main_pc = "ready"
    /\ render_pos = IdlePos
    /\ frame = NoFrame
    /\ current_skybox \in {skybox_texture, skybox_night_texture}
    /\ shown = <<>>

NextRender == CallRender \/ RenderCell \/ RenderReturn

SpecRender == InitRender /\ [][NextRender]_vars

\* The main loop, from its first iteration.
InitMain ==
    /\ cube = IdleCube
    /\ ray_origin = <<0, 0, 0>>
    /\ ray_direction = <<0, 0, 1>>
    /\ called = "none"
    /\ hit = None
    /\ col_call = NoColorCall
    /\ col_done = FALSE
    /\ col_out = Color_black
    /\ file = Missing
    /\ texture = NoTexture
    /\ tex_call = NoTexCall
    /\ material = NoMaterial
    /\ mat_call = NoMatCall
    /\ fb = Framebuffer_new(FbWidth, FbHeight)
    /\ fb_last = NoFbCall
    /\ scene_objects = <<Block, Lamp>>
    /\ scene_lights = <<daytime_light>>
    /\ primary = IdlePrimary
    /\ chance = NoChance
    /\ ray_out = NoRayOut
    /\ camera = Camera_new(<<0, 0, 2>>, <<0, 0, 0>>, <<0, 1, 0>>)
    /\ cam_call = NoCamCall
    /\ main_pc = "head"
    /\ render_pos = IdlePos
    /\ frame = NoFrame
    /\ current_skybox = skybox_texture
    /\ shown = <<>>

NextMain ==
    Clear \/ Exit \/ Swap \/ CallRender \/ RenderCell \/ RenderReturn \/ Present \/ Input

SpecMain == InitMain /\ [][NextMain]_vars

=============================================================================
